---- MODULE Spec2Model ----
(***************************************************************************)
(* Verification model of the Proofi agents repository:                     *)
(*   - lib/proofi-sdk.js        ProofiSDK audit hash chain, scope matching *)
(*   - health-analyzer keys.ts  persisted agent keypair                    *)
(*   - health-analyzer crypto.ts token expiry and scope checks             *)
(*   - health-analyzer audit.ts  AuditLog singleton                        *)
(*   - health-analyzer local.ts  runAnalysis                               *)
(*   - health-analyzer server.ts POST /analyze                             *)
(* Every subsystem has its own specification over the shared variables;    *)
(* the variables of the other subsystems stay at their initial value.      *)
(***************************************************************************)
EXTENDS FiniteSets, Integers, Sequences, TLC

VARIABLES
    \* ProofiSDK (lib/proofi-sdk.js)
    auditChain,     \* this.auditChain: the pushed entries, in order
    calls,          \* addAuditEntry calls: idle, or awaiting the digest
    clock,          \* Date.now()
    overlapped,     \* history: some addAuditEntry started while another was in flight
    pushedDetails,  \* history: the details each entry was pushed with
    \* agent keypair store (health-analyzer keys.ts)
    keyFile,        \* keys/agent-keypair.json: existence, content, permissions
    keyPc,          \* getOrCreateKeypair: idle, or inside saveKeypair before chmodSync
    keyPending,     \* the keypair getOrCreateKeypair is about to return
    nextKey,        \* number of keypairs nacl.box.keyPair() has produced
    keyResult,      \* what the last finished getOrCreateKeypair call returned
    returnedKeys,   \* history: keypairs returned since the last deleteKeypair
    generatedKeys,  \* history: keypairs generated since the last deleteKeypair
    \* capability token checks (health-analyzer crypto.ts, lib/proofi-sdk.js)
    token,          \* the CapabilityToken under test
    dateNow,        \* Date.now() in milliseconds
    lastCheck,      \* the last check that ran: operation, arguments, result
    \* AuditLog singleton (health-analyzer audit.ts) and runAnalysis (local.ts)
    entries,        \* auditLog.entries
    sessionId,      \* auditLog.sessionId
    entryOwner,     \* history: for each entry, the runAnalysis call that logged it
    runs,           \* runAnalysis calls: position and local variables
    \* POST /analyze (health-analyzer server.ts)
    reqs,           \* the requests: position, body, parsed token, response
    \* ProofiSDK scoped access tokens (lib/proofi-sdk.js)
    tokens,         \* this.tokens: the token stored under each tokenId
    revokedIds,     \* history: the tokenIds revokeToken found and revoked
    lastValidation, \* the last validateToken call: arguments, time, result
    \* AuditLog operations (health-analyzer audit.ts)
    everAppended,   \* history: every entry log pushed, with the index it got
    lastReturned,   \* what the last getEntries / getSummary call returned
    \* key unwrapping and payload cipher (crypto.ts, lib/proofi-sdk.js)
    lastUnwrap,     \* the last unwrapDEK call: how the key was wrapped, arguments, result
    lastCipher,     \* the last encryptData / decryptData round: arguments, results
    \* dashboard server (server.js)
    healthData,     \* the loaded health data (0: none; n: the n-th data set loaded)
    userGoals,      \* the goals
    agentResults,   \* per agent: the data set its stored result was computed from (0: none)
    agentRuns,      \* POST /api/agent/:name requests: position, agent, data passed to it
    \* ProofiSDK.executeAgent (lib/proofi-sdk.js)
    execs,          \* executeAgent calls: position, the token created, the outcome
    \* ProofiSDK.waitForExtension (lib/proofi-sdk.js)
    extension,      \* window.__proofi_extension__
    wallet,         \* this.wallet
    waits           \* waitForExtension calls: promise, listener, timer

sdkVars == <<auditChain, calls, clock, overlapped, pushedDetails>>
keyVars == <<keyFile, keyPc, keyPending, nextKey, keyResult, returnedKeys, generatedKeys>>

tokVars == <<token, dateNow, lastCheck>>

audVars == <<entries, sessionId, entryOwner, runs>>

srvVars == <<reqs>>

stoVars == <<tokens, revokedIds, lastValidation>>

logVars == <<everAppended, lastReturned>>

cryVars == <<lastUnwrap, lastCipher>>

dashVars == <<healthData, userGoals, agentResults, agentRuns>>

execVars == <<execs>>

extVars == <<extension, wallet, waits>>

vars == <<sdkVars, keyVars, tokVars, audVars, srvVars, stoVars, logVars, cryVars,
          dashVars, execVars, extVars>>

\* the variables an action of one subsystem leaves alone
notSdk == <<dashVars, execVars, extVars, cryVars, logVars, keyVars, tokVars, audVars, srvVars, stoVars>>
notKey == <<dashVars, execVars, extVars, cryVars, logVars, sdkVars, tokVars, audVars, srvVars, stoVars>>
notTok == <<dashVars, execVars, extVars, cryVars, logVars, sdkVars, keyVars, audVars, srvVars, stoVars>>
notAud == <<dashVars, execVars, extVars, cryVars, logVars, sdkVars, keyVars, tokVars, srvVars, stoVars>>
notSrv == <<dashVars, execVars, extVars, cryVars, logVars, sdkVars, keyVars, tokVars, audVars, stoVars>>
notLog == <<dashVars, execVars, extVars, cryVars, sdkVars, keyVars, tokVars, srvVars, stoVars>>
notCry == <<dashVars, execVars, extVars, sdkVars, keyVars, tokVars, audVars, srvVars, stoVars, logVars>>
notDash == <<sdkVars, keyVars, tokVars, audVars, srvVars, stoVars, logVars, cryVars,
            execVars, extVars>>
notExt == <<sdkVars, keyVars, tokVars, audVars, srvVars, stoVars, logVars, cryVars,
           dashVars, execVars>>
notExec == <<calls, overlapped, lastValidation, keyVars, tokVars, audVars, srvVars,
            logVars, cryVars, dashVars, extVars>>
notSto == <<dashVars, execVars, extVars, cryVars, logVars, auditChain, calls, overlapped, pushedDetails, keyVars, tokVars, audVars, srvVars>>

(***************************************************************************)
(* Bounds                                                                  *)
(***************************************************************************)
MaxChain == 3       \* entries in one ProofiSDK chain
MaxClock == 1       \* distinct Date.now() readings
MaxKeys == 3        \* keypairs nacl.box.keyPair() may generate
MaxSeconds == 2     \* Unix seconds covered by token expiry and Date.now()
MaxRuns == 2        \* runAnalysis calls in one process
MaxRequests == 1    \* POST /analyze requests in one process
MaxTokens == 2      \* access tokens one ProofiSDK creates
MaxLogged == 3      \* entries the AuditLog operations push in all
MaxSessions == 2    \* session ids one AuditLog draws
MaxLoads == 2       \* data sets the dashboard server loads
MaxExecs == 2       \* executeAgent calls on one ProofiSDK

(***************************************************************************)
(* ProofiSDK audit trail (lib/proofi-sdk.js)                               *)
(***************************************************************************)
Callers == {1, 2}
SdkActions == {"AGENT_EXECUTED"}
SdkDetails == {"d1", "d2"}

\* '0'.repeat(64)
Genesis == [i \in 1..64 |-> "0"]

\* crypto.subtle.digest('SHA-256', data), base64 encoded: collision free,
\* so the digest is represented by the tagged preimage.
SHA256(data) == <<"sha256", data>>

\* JSON.stringify of an entry without its hash field: the own keys in
\* insertion order timestamp, action, details, prevHash.
Serialize(entry) == <<entry.timestamp, entry.action, entry.details, entry.prevHash>>

\* (mutation of TailHash: links every entry to the first entry's hash)
TailHashFirst(chain) == IF Len(chain) > 0 THEN chain[1].hash ELSE Genesis

\* the prevHash addAuditEntry reads before it awaits the digest
TailHash(chain) == IF Len(chain) > 0 THEN chain[Len(chain)].hash ELSE Genesis

InFlight == {c \in Callers : calls[c].pc = "digest"}

\* addAuditEntry up to `await crypto.subtle.digest`
AddAuditEntryStart(c, action, details) ==
    /\ calls[c].pc = "idle"
    /\ Len(auditChain) + Cardinality(InFlight) < MaxChain
    /\ calls' = [calls EXCEPT ![c] =
                   [pc |-> "digest",
                    entry |-> [timestamp |-> clock, action |-> action,
                               details |-> details, prevHash |-> TailHash(auditChain)]]]
    /\ overlapped' = (overlapped \/ InFlight # {})
    /\ UNCHANGED <<auditChain, clock, pushedDetails, notSdk>>

\* addAuditEntry after the digest resolved: set entry.hash, push
AddAuditEntryFinish(c) ==
    /\ calls[c].pc = "digest"
    /\ LET e == calls[c].entry
           full == [timestamp |-> e.timestamp, action |-> e.action,
                    details |-> e.details, prevHash |-> e.prevHash,
                    hash |-> SHA256(Serialize(e))]
       IN /\ auditChain' = Append(auditChain, full)
          /\ pushedDetails' = Append(pushedDetails, e.details)
    /\ calls' = [calls EXCEPT ![c] = [pc |-> "idle"]]
    /\ UNCHANGED <<clock, overlapped, notSdk>>

\* (mutation of VerifyFrom: checks the links only, never recomputes a hash)
RECURSIVE VerifyLinksFrom(_, _)
VerifyLinksFrom(chain, i) ==
    IF i > Len(chain) THEN [valid |-> TRUE, entries |-> Len(chain)]
    ELSE LET entry == chain[i]
             expectedPrev == IF i = 1 THEN Genesis ELSE chain[i - 1].hash
         IN IF entry.prevHash # expectedPrev
            THEN [valid |-> FALSE, brokenAt |-> i - 1, reason |-> "prevHash mismatch"]
            ELSE VerifyLinksFrom(chain, i + 1)

\* (mutation of VerifyFrom: the walk goes on after a failed check and
\* reports the last index that fails)
RECURSIVE VerifyReportLast(_, _)
VerifyReportLast(chain, i) ==
    IF i > Len(chain) THEN [valid |-> TRUE, entries |-> Len(chain)]
    ELSE LET entry == chain[i]
             expectedPrev == IF i = 1 THEN Genesis ELSE chain[i - 1].hash
             rest == VerifyReportLast(chain, i + 1)
         IN IF ~rest.valid THEN rest
            ELSE IF entry.prevHash # expectedPrev
            THEN [valid |-> FALSE, brokenAt |-> i - 1, reason |-> "prevHash mismatch"]
            ELSE IF SHA256(Serialize(entry)) # entry.hash
                 THEN [valid |-> FALSE, brokenAt |-> i - 1, reason |-> "Hash mismatch"]
                 ELSE rest

\* verifyChain: walk from index i (1-based here, i-1 in the code)
RECURSIVE VerifyFrom(_, _)
VerifyFrom(chain, i) ==
    IF i > Len(chain) THEN [valid |-> TRUE, entries |-> Len(chain)]
    ELSE LET entry == chain[i]
             expectedPrev == IF i = 1 THEN Genesis ELSE chain[i - 1].hash
         IN IF entry.prevHash # expectedPrev
            THEN [valid |-> FALSE, brokenAt |-> i - 1, reason |-> "prevHash mismatch"]
            ELSE IF SHA256(Serialize(entry)) # entry.hash
                 THEN [valid |-> FALSE, brokenAt |-> i - 1, reason |-> "Hash mismatch"]
                 ELSE VerifyFrom(chain, i + 1)

verifyChain == VerifyFrom(auditChain, 1)

\* exportAudit(meta): the document's entries and verification block;
\* <<>> stands for the null finalHash of an empty chain
exportAudit ==
    [version |-> "1.0",
     entries |-> auditChain,
     verification |-> [algorithm |-> "SHA-256",
                       chainValid |-> TRUE,
                       finalHash |-> IF Len(auditChain) > 0
                                     THEN auditChain[Len(auditChain)].hash
                                     ELSE <<>>]]

\* An entry of the stored chain is edited in place after it was pushed:
\* its details are replaced, every other field (hash included) is kept.
TamperDetails(k, details) ==
    /\ k \in 1..Len(auditChain)
    /\ auditChain[k].details # details
    /\ auditChain' = [auditChain EXCEPT ![k].details = details]
    /\ UNCHANGED <<calls, clock, overlapped, pushedDetails, notSdk>>

\* Date.now() advances
Tick ==
    /\ clock < MaxClock
    /\ clock' = clock + 1
    /\ UNCHANGED <<auditChain, calls, overlapped, pushedDetails, notSdk>>

SdkInit ==
    /\ auditChain = <<>>
    /\ calls = [c \in Callers |-> [pc |-> "idle"]]
    /\ clock = 0
    /\ overlapped = FALSE
    /\ pushedDetails = <<>>

SdkAdd == \E c \in Callers, a \in SdkActions, d \in SdkDetails : AddAuditEntryStart(c, a, d)
SdkFinish == \E c \in Callers : AddAuditEntryFinish(c)
SdkTamper == \E k \in 1..MaxChain, d \in SdkDetails : TamperDetails(k, d)

SdkNext == SdkAdd \/ SdkFinish \/ SdkTamper \/ Tick

(***************************************************************************)
(* Agent keypair store (health-analyzer/src/keys.ts)                       *)
(***************************************************************************)
Null == [kind |-> "null"]

\* what the keypair file can hold: a well-formed StoredKeypair record, or
\* text that is not JSON, JSON without the key fields, or fields that are
\* not base64
CorruptKinds == {"badJson", "missingField", "badBase64"}

NoFile == [exists |-> FALSE, kind |-> "none", key |-> 0, mode |-> "none"]

\* nacl.box.keyPair(): the n-th keypair the generator produces
generateKeypair(n) == [kind |-> "keypair", publicKey |-> <<"pub", n>>, privateKey |-> <<"priv", n>>]

\* encodeBase64 / decodeBase64 of tweetnacl-util: decodeBase64 inverts
\* encodeBase64 and throws a TypeError on text that is not base64 (the
\* text "undefined" of a missing field included)
encodeBase64(bytes) == [base64 |-> TRUE, bytes |-> bytes]
NotBase64 == [base64 |-> FALSE, bytes |-> <<>>]
decodeBase64Throws(text) == ~text.base64
decodeBase64(text) == text.bytes

\* JSON.parse(fs.readFileSync(KEYPAIR_FILE)) as a StoredKeypair
ParseStored(file) ==
    CASE file.kind = "keypair" ->
             [throws |-> FALSE,
              publicKey |-> encodeBase64(<<"pub", file.key>>),
              privateKey |-> encodeBase64(<<"priv", file.key>>)]
      [] file.kind = "badJson" ->
             [throws |-> TRUE, publicKey |-> NotBase64, privateKey |-> NotBase64]
      [] OTHER ->
             [throws |-> FALSE, publicKey |-> NotBase64, privateKey |-> NotBase64]

\* loadKeypair: null when the file is absent, and also null (after
\* console.error) when reading, parsing or decoding throws
loadKeypair(file) ==
    IF ~file.exists THEN Null
    ELSE LET stored == ParseStored(file)
         IN IF stored.throws \/ decodeBase64Throws(stored.publicKey)
                             \/ decodeBase64Throws(stored.privateKey)
            THEN Null
            ELSE [kind |-> "keypair",
                  publicKey |-> decodeBase64(stored.publicKey),
                  privateKey |-> decodeBase64(stored.privateKey)]

\* getOrCreateKeypair up to and including fs.writeFileSync of saveKeypair.
\* writeFileSync creates a missing file with the default permissions and
\* keeps the permissions of a file it overwrites.
GetOrCreateKeypair ==
    /\ keyPc = "idle"
    /\ LET keypair == loadKeypair(keyFile)
       IN IF keypair # Null
          THEN /\ keyResult' = keypair
               /\ returnedKeys' = returnedKeys \cup {keypair}
               /\ UNCHANGED <<keyFile, keyPc, keyPending, nextKey, generatedKeys>>
          ELSE /\ nextKey < MaxKeys
               /\ nextKey' = nextKey + 1
               /\ keyPending' = generateKeypair(nextKey + 1)
               /\ generatedKeys' = generatedKeys \cup {generateKeypair(nextKey + 1)}
               /\ keyFile' = [exists |-> TRUE, kind |-> "keypair", key |-> nextKey + 1,
                              mode |-> IF keyFile.exists THEN keyFile.mode ELSE "0644"]
               /\ keyPc' = "chmod"
               /\ UNCHANGED <<keyResult, returnedKeys>>
    /\ UNCHANGED notKey

\* saveKeypair from fs.chmodSync on, then getOrCreateKeypair returns; a
\* chmodSync that throws is swallowed by the empty catch
SaveKeypairChmod(chmodWorks) ==
    /\ keyPc = "chmod"
    /\ keyFile' = IF chmodWorks /\ keyFile.exists THEN [keyFile EXCEPT !.mode = "0600"] ELSE keyFile
    /\ keyResult' = keyPending
    /\ returnedKeys' = returnedKeys \cup {keyPending}
    /\ keyPc' = "idle"
    /\ UNCHANGED <<keyPending, nextKey, generatedKeys>>
    /\ UNCHANGED notKey

\* deleteKeypair
DeleteKeypair ==
    /\ keyPc = "idle"
    /\ keyFile.exists
    /\ keyFile' = NoFile
    /\ returnedKeys' = {}
    /\ generatedKeys' = {}
    /\ UNCHANGED <<keyPc, keyPending, nextKey, keyResult>>
    /\ UNCHANGED notKey

\* The stored file stops being decodable (a write cut short, a damaged or
\* hand-edited file): the case loadKeypair's catch block handles.
CorruptKeypairFile(kind) ==
    /\ keyFile.exists
    /\ keyFile.kind = "keypair"
    /\ keyFile' = [keyFile EXCEPT !.kind = kind, !.key = 0]
    /\ UNCHANGED <<keyPc, keyPending, nextKey, keyResult, returnedKeys, generatedKeys>>
    /\ UNCHANGED notKey

\* The process stops inside saveKeypair and is started again.
RestartProcess ==
    /\ keyPc = "chmod"
    /\ keyPc' = "idle"
    /\ UNCHANGED <<keyFile, keyPending, nextKey, keyResult, returnedKeys, generatedKeys>>
    /\ UNCHANGED notKey

KeyInit ==
    /\ keyFile = NoFile
    /\ keyPc = "idle"
    /\ keyPending = Null
    /\ nextKey = 0
    /\ keyResult = Null
    /\ returnedKeys = {}
    /\ generatedKeys = {}

KeyChmod == \E ok \in BOOLEAN : SaveKeypairChmod(ok)
KeyCorrupt == \E kind \in CorruptKinds : CorruptKeypairFile(kind)

KeyNext == GetOrCreateKeypair \/ KeyChmod \/ DeleteKeypair \/ KeyCorrupt \/ RestartProcess

(***************************************************************************)
(* Capability token checks (health-analyzer/src/crypto.ts) and the SDK's   *)
(* scope matcher (lib/proofi-sdk.js).  Strings are sequences of characters. *)
(***************************************************************************)
S_health == <<"h","e","a","l","t","h">>
S_healthStar == S_health \o <<"/","*">>
S_healthSteps == S_health \o <<"/","s","t","e","p","s">>
S_HealthSteps == <<"H">> \o SubSeq(S_healthSteps, 2, Len(S_healthSteps))
S_healthSleep == S_health \o <<"/","s","l","e","e","p">>
S_healthcareX == S_health \o <<"c","a","r","e","/","x">>
S_healthStepsStar == S_healthSteps \o <<"/","*">>

\* String.prototype.endsWith / startsWith / slice(0, -n) / includes
endsWith(str, suffix) ==
    /\ Len(str) >= Len(suffix)
    /\ SubSeq(str, Len(str) - Len(suffix) + 1, Len(str)) = suffix
startsWith(str, prefix) ==
    /\ Len(str) >= Len(prefix)
    /\ SubSeq(str, 1, Len(prefix)) = prefix
sliceEnd(str, n) == SubSeq(str, 1, Len(str) - n)
includes(str, part) ==
    \E i \in 0..(Len(str) - Len(part)) : SubSeq(str, i + 1, i + Len(part)) = part

\* matchScope(pattern, required) of lib/proofi-sdk.js
matchScope(pattern, required) ==
    IF pattern = required THEN TRUE
    ELSE IF endsWith(pattern, <<"/","*">>)
         THEN startsWith(required, sliceEnd(pattern, 2))
         ELSE FALSE

\* isTokenExpired(token) of crypto.ts, at Date.now() = ms
isTokenExpired(tok, ms) ==
    LET now == ms \div 1000
    IN tok.exp < now

\* hasScope(token, requiredPath, permission) of crypto.ts
hasScope(tok, requiredPath, permission) ==
    \E i \in 1..Len(tok.scopes) :
        /\ includes(tok.scopes[i].path, requiredPath)
        /\ permission \in tok.scopes[i].permissions

Paths == {S_health, S_healthStar, S_healthSteps, S_HealthSteps,
          S_healthSleep, S_healthcareX, S_healthStepsStar}
Permissions == {"read", "write"}
Subjects == {"agentPublicKey", "otherPublicKey"}

ScopeLists ==
    { <<[path |-> S_healthStar, permissions |-> {"read"}]>>,
      <<[path |-> S_healthSteps, permissions |-> {"read", "write"}]>>,
      <<[path |-> S_healthStepsStar, permissions |-> {"read"}],
        [path |-> S_healthSleep, permissions |-> {"write"}]>> }

NoCheck == [op |-> "none", a |-> <<>>, b |-> <<>>, permission |-> "none", at |-> 0, result |-> FALSE]

\* the token is checked for expiry
CheckExpired ==
    /\ lastCheck' = [op |-> "isTokenExpired", a |-> <<>>, b |-> <<>>, permission |-> "none",
                     at |-> dateNow, result |-> isTokenExpired(token, dateNow)]
    /\ UNCHANGED <<token, dateNow>>
    /\ UNCHANGED notTok

\* the token is asked for a (path, permission)
CheckHasScope(requiredPath, permission) ==
    /\ lastCheck' = [op |-> "hasScope", a |-> <<>>, b |-> requiredPath, permission |-> permission,
                     at |-> dateNow, result |-> hasScope(token, requiredPath, permission)]
    /\ UNCHANGED <<token, dateNow>>
    /\ UNCHANGED notTok

\* a scope pattern is matched against a required scope
CheckMatchScope(pattern, required) ==
    /\ lastCheck' = [op |-> "matchScope", a |-> pattern, b |-> required, permission |-> "none",
                     at |-> dateNow, result |-> matchScope(pattern, required)]
    /\ UNCHANGED <<token, dateNow>>
    /\ UNCHANGED notTok

\* time passes
AdvanceDateNow ==
    /\ \E ms \in {sec * 1000 + r : sec \in 0..MaxSeconds, r \in {0, 999}} :
          /\ ms > dateNow
          /\ dateNow' = ms
    /\ UNCHANGED <<token, lastCheck>>
    /\ UNCHANGED notTok

TokInit ==
    /\ token \in [exp : 1..MaxSeconds, sub : Subjects, scopes : ScopeLists]
    /\ dateNow = 0
    /\ lastCheck = NoCheck

TokHasScope == \E p \in Paths, perm \in Permissions : CheckHasScope(p, perm)
TokMatchScope == \E p \in Paths, r \in Paths : CheckMatchScope(p, r)

TokNext == CheckExpired \/ TokHasScope \/ TokMatchScope \/ AdvanceDateNow

(***************************************************************************)
(* ProofiSDK scoped access tokens (lib/proofi-sdk.js).  A tokenId is 16    *)
(* random bytes: every created token gets an id no earlier token has.      *)
(***************************************************************************)
TokenIds == 1..MaxTokens
GrantedScopes == { <<S_healthStar>>, <<S_healthSleep, S_healthSteps>> }
\* validateToken's requiredScope; <<>> is the omitted (falsy) argument
RequiredScopes == { <<>>, S_healthSteps, S_healthSleep }
\* durationMs of createAccessToken, in clock readings
Durations == {0, 1}

\* createAccessToken(agentId, scopes, durationMs)
createAccessToken(scopes, durationMs) ==
    /\ Len(tokens) < MaxTokens
    /\ tokens' = Append(tokens, [tokenId |-> Len(tokens) + 1, scopes |-> scopes,
                                 createdAt |-> clock, expiresAt |-> clock + durationMs,
                                 revoked |-> FALSE])
    /\ UNCHANGED <<revokedIds, lastValidation, clock, notSto>>

\* (mutation of ValidateStoredToken: the expiry is looked at before the
\* revoked flag)
ValidateStoredTokenExpiredFirst(store, tokenId, requiredScope, now) ==
    IF tokenId \notin DOMAIN store
    THEN [valid |-> FALSE, reason |-> "Token not found", token |-> 0]
    ELSE IF store[tokenId].expiresAt < now
    THEN [valid |-> FALSE, reason |-> "Token expired", token |-> 0]
    ELSE IF store[tokenId].revoked
    THEN [valid |-> FALSE, reason |-> "Token revoked", token |-> 0]
    ELSE IF /\ requiredScope # <<>>
            /\ ~\E k \in 1..Len(store[tokenId].scopes) :
                    matchScope(store[tokenId].scopes[k], requiredScope)
    THEN [valid |-> FALSE, reason |-> "Scope not granted", token |-> 0]
    ELSE [valid |-> TRUE, reason |-> "none", token |-> tokenId]

\* (mutation of ValidateStoredToken: the revoked flag is not looked at)
ValidateStoredTokenNoRevoked(store, tokenId, requiredScope, now) ==
    IF tokenId \notin DOMAIN store
    THEN [valid |-> FALSE, reason |-> "Token not found", token |-> 0]
    ELSE IF store[tokenId].expiresAt < now
    THEN [valid |-> FALSE, reason |-> "Token expired", token |-> 0]
    ELSE IF /\ requiredScope # <<>>
            /\ ~\E k \in 1..Len(store[tokenId].scopes) :
                    matchScope(store[tokenId].scopes[k], requiredScope)
    THEN [valid |-> FALSE, reason |-> "Scope not granted", token |-> 0]
    ELSE [valid |-> TRUE, reason |-> "none", token |-> tokenId]

\* ProofiSDK.validateToken(tokenId, requiredScope) on the token map `store`
\* at Date.now() = now
ValidateStoredToken(store, tokenId, requiredScope, now) ==
    IF tokenId \notin DOMAIN store
    THEN [valid |-> FALSE, reason |-> "Token not found", token |-> 0]
    ELSE IF store[tokenId].revoked
    THEN [valid |-> FALSE, reason |-> "Token revoked", token |-> 0]
    ELSE IF store[tokenId].expiresAt < now
    THEN [valid |-> FALSE, reason |-> "Token expired", token |-> 0]
    ELSE IF /\ requiredScope # <<>>
            /\ ~\E k \in 1..Len(store[tokenId].scopes) :
                    matchScope(store[tokenId].scopes[k], requiredScope)
    THEN [valid |-> FALSE, reason |-> "Scope not granted", token |-> 0]
    ELSE [valid |-> TRUE, reason |-> "none", token |-> tokenId]

NoValidation == [tokenId |-> 0, requiredScope |-> <<>>, at |-> 0, afterRevoke |-> FALSE,
                 result |-> [valid |-> FALSE, reason |-> "none", token |-> 0]]

\* a call of validateToken(tokenId, requiredScope); the token it returns is
\* named by its id (0: none)
ValidateTokenCall(tokenId, requiredScope) ==
    /\ lastValidation' = [tokenId |-> tokenId, requiredScope |-> requiredScope,
                          at |-> clock, afterRevoke |-> tokenId \in revokedIds,
                          result |-> ValidateStoredToken(tokens, tokenId, requiredScope, clock)]
    /\ UNCHANGED <<tokens, revokedIds, clock, notSto>>

\* revokeToken(tokenId)
revokeToken(tokenId) ==
    /\ tokens' = IF tokenId \in DOMAIN tokens
                 THEN [tokens EXCEPT ![tokenId].revoked = TRUE]
                 ELSE tokens
    /\ revokedIds' = IF tokenId \in DOMAIN tokens
                     THEN revokedIds \cup {tokenId}
                     ELSE revokedIds
    /\ UNCHANGED <<lastValidation, clock, notSto>>

StoInit ==
    /\ tokens = <<>>
    /\ revokedIds = {}
    /\ lastValidation = NoValidation

StoCreate == \E scopes \in GrantedScopes, d \in Durations : createAccessToken(scopes, d)
StoValidate == \E id \in TokenIds, scope \in RequiredScopes : ValidateTokenCall(id, scope)
StoRevoke == \E id \in TokenIds : revokeToken(id)

StoNext == StoCreate \/ StoValidate \/ StoRevoke \/ Tick

(***************************************************************************)
(* AuditLog singleton (health-analyzer/src/audit.ts) and runAnalysis       *)
(* (health-analyzer/src/local.ts)                                          *)
(***************************************************************************)
Runs == 1..MaxRuns
HealthData == {"metricsA", "metricsB"}
Engines == {"openai", "rules"}

\* hashData(data): SHA-256 hex digest of the JSON text of data
hashData(data) == SHA256(data)

\* AuditLog.log(action, details, hashes): the entry it pushes
LogEntry(action, details) ==
    [id |-> <<sessionId, Len(entries)>>, action |-> action, details |-> details]

\* auditLog.log called by runAnalysis call r
Log(r, action, details) ==
    /\ entries' = Append(entries, LogEntry(action, details))
    /\ entryOwner' = Append(entryOwner, r)

NoDetails == [model |-> "none", hash |-> <<>>]
IdleRun == [pc |-> "idle", useLocalAI |-> FALSE, dataHash |-> <<>>, model |-> "none",
            saved |-> <<>>]

\* runAnalysis up to `await fetchFromDDC`: auditLog.clear() empties the
\* shared log and draws a new session id, then data_fetched is logged
RunAnalysisStart(r, useLocalAI) ==
    /\ runs[r].pc = "idle"
    /\ sessionId' = sessionId + 1
    /\ entries' = <<[id |-> <<sessionId + 1, 0>>, action |-> "data_fetched",
                     details |-> NoDetails]>>
    /\ entryOwner' = <<r>>
    /\ runs' = [runs EXCEPT ![r] = [IdleRun EXCEPT !.pc = "fetch", !.useLocalAI = useLocalAI]]
    /\ UNCHANGED notAud

\* fetchFromDDC resolved: data_decrypted is logged, `await decryptData`
RunAnalysisFetched(r) ==
    /\ runs[r].pc = "fetch"
    /\ Log(r, "data_decrypted", NoDetails)
    /\ runs' = [runs EXCEPT ![r].pc = "decrypt"]
    /\ UNCHANGED <<sessionId, notAud>>

\* fetchFromDDC rejected (readFileSync of the test data throws): the
\* rejection leaves runAnalysis
RunAnalysisFetchFailed(r) ==
    /\ runs[r].pc = "fetch"
    /\ runs' = [runs EXCEPT ![r].pc = "failed"]
    /\ UNCHANGED <<entries, sessionId, entryOwner, notAud>>

\* decryptData resolved with the health data: dataHash, the model name
\* from config.useLocalAI, inference_started, `await analyzeHealthData`
RunAnalysisDecrypted(r, decrypted) ==
    /\ runs[r].pc = "decrypt"
    /\ LET dataHash == hashData(decrypted)
           model == IF runs[r].useLocalAI THEN "rule-based (local)" ELSE "gpt-4o-mini (API)"
       IN /\ Log(r, "inference_started", [model |-> model, hash |-> dataHash])
          /\ runs' = [runs EXCEPT ![r].pc = "analyze", ![r].dataHash = dataHash,
                                  ![r].model = model]
    /\ UNCHANGED <<sessionId, notAud>>

\* analyzeHealthData resolved with the insights: resultHash,
\* inference_completed, auditLog.getEntries() into the saved document
RunAnalysisAnalyzed(r, insights) ==
    /\ runs[r].pc = "analyze"
    /\ LET resultHash == hashData(insights)
           entry == LogEntry("inference_completed", [model |-> runs[r].model, hash |-> resultHash])
       IN /\ Log(r, "inference_completed", [model |-> runs[r].model, hash |-> resultHash])
          /\ runs' = [runs EXCEPT ![r].pc = "done",
                                  ![r].saved = <<[config |-> [useLocalAI |-> runs[r].useLocalAI],
                                                  dataHash |-> runs[r].dataHash,
                                                  resultHash |-> resultHash,
                                                  entries |-> Append(entries, entry)]>>]
    /\ UNCHANGED <<sessionId, notAud>>

AudInit ==
    /\ entries = <<>>
    /\ sessionId = 0
    /\ entryOwner = <<>>
    /\ runs = [r \in Runs |-> IdleRun]

AudStart == \E r \in Runs, useLocalAI \in BOOLEAN : RunAnalysisStart(r, useLocalAI)
AudFetched == \E r \in Runs : RunAnalysisFetched(r)
AudFetchFailed == \E r \in Runs : RunAnalysisFetchFailed(r)
AudDecrypted == \E r \in Runs, d \in HealthData : RunAnalysisDecrypted(r, d)
\* the engines analyzeHealthData can end with: config.useLocalAI is
\* !process.env.OPENAI_API_KEY at both call sites, so without a key it is
\* the rules; with a key it is OpenAI (key starting with sk-, call
\* succeeded) or the rules (any other key, or the OpenAI call failed)
EnginesFor(useLocalAI) == IF useLocalAI THEN {"rules"} ELSE Engines

AudAnalyzed ==
    \E r \in Runs : \E e \in EnginesFor(runs[r].useLocalAI) :
        RunAnalysisAnalyzed(r, <<"insights", e>>)

AudNext == AudStart \/ AudFetched \/ AudFetchFailed \/ AudDecrypted \/ AudAnalyzed

(***************************************************************************)
(* The operations of the AuditLog class (health-analyzer/src/audit.ts),    *)
(* called in any order by any importer of the singleton                    *)
(***************************************************************************)
AuditActions == {"token_received", "error"}
\* Date.now() - startTime of logWithTiming
ElapsedMs == {0, 1}

\* log(action, details, hashes)
AuditLogLog(action) ==
    /\ Len(everAppended) < MaxLogged
    /\ Log(0, action, NoDetails)
    /\ everAppended' = Append(everAppended,
            [index |-> Len(entries) + 1, entry |-> LogEntry(action, NoDetails)])
    /\ UNCHANGED <<sessionId, runs, lastReturned, notLog>>

\* logWithTiming(action, startTime, details, hashes): log, then duration_ms
\* is set on the entry log returned
AuditLogLogWithTiming(action, elapsed) ==
    LET entry == [id |-> LogEntry(action, NoDetails).id, action |-> action,
                  details |-> NoDetails, duration_ms |-> elapsed]
    IN /\ Len(everAppended) < MaxLogged
       /\ entries' = Append(entries, entry)
       /\ entryOwner' = Append(entryOwner, 0)
       /\ everAppended' = Append(everAppended, [index |-> Len(entries) + 1, entry |-> entry])
       /\ UNCHANGED <<sessionId, runs, lastReturned, notLog>>

\* getEntries(): a copy of the array
AuditLogGetEntries ==
    /\ lastReturned' = [op |-> "getEntries", entries |-> entries]
    /\ UNCHANGED <<audVars, everAppended, notLog>>

\* getSummary(): session id, number of entries, entries per action, the array
AuditLogGetSummary ==
    /\ lastReturned' =
          [op |-> "getSummary", sessionId |-> sessionId, totalOperations |-> Len(entries),
           actions |-> [a \in {entries[i].action : i \in 1..Len(entries)} |->
                           Cardinality({i \in 1..Len(entries) : entries[i].action = a})],
           entries |-> entries]
    /\ UNCHANGED <<audVars, everAppended, notLog>>

\* clear(): an empty array and a new session id
AuditLogClear ==
    /\ sessionId < MaxSessions
    /\ entries' = <<>>
    /\ entryOwner' = <<>>
    /\ sessionId' = sessionId + 1
    /\ UNCHANGED <<runs, logVars, notLog>>

LogInit ==
    /\ everAppended = <<>>
    /\ lastReturned = [op |-> "none"]

LogLog == \E a \in AuditActions : AuditLogLog(a)
LogLogWithTiming == \E a \in AuditActions, ms \in ElapsedMs : AuditLogLogWithTiming(a, ms)

LogNext ==
    LogLog \/ LogLogWithTiming \/ AuditLogGetEntries \/ AuditLogGetSummary \/ AuditLogClear

(***************************************************************************)
(* Key unwrapping (health-analyzer/src/crypto.ts).  nacl.box is modelled   *)
(* symbolically: a box opens under the key agreed between one side's       *)
(* public and the other side's private key, with the nonce it was made     *)
(* with, and only when its bytes are the ones the sender produced.         *)
(***************************************************************************)
\* keypairs of agents, and one-time keypairs of senders
AgentKeyIds == {1, 2}
EphemeralKeyIds == {3, 4}
Nonces == {"nonce1", "nonce2"}
DEKs == {<<"dek", 1>>, <<"dek", 2>>}

\* nacl.box(msg, nonce, theirPublicKey, mySecretKey)
naclBox(msg, nonce, theirPublicKey, mySecretKey) ==
    [agreed |-> {theirPublicKey[2], mySecretKey[2]}, nonce |-> nonce, msg |-> msg,
     intact |-> TRUE]

\* nacl.box.open(box, nonce, theirPublicKey, mySecretKey): the message, or
\* null
naclBoxOpen(box, nonce, theirPublicKey, mySecretKey) ==
    IF /\ box.intact
       /\ box.agreed = {theirPublicKey[2], mySecretKey[2]}
       /\ box.nonce = nonce
    THEN [null |-> FALSE, msg |-> box.msg]
    ELSE [null |-> TRUE, msg |-> <<>>]

\* the WrappedDEK a sender makes of dek for the recipient's public key with
\* a one-time keypair and a nonce
wrapDEK(dek, recipientPublicKey, ephemeral, nonce) ==
    [ciphertext |-> encodeBase64(naclBox(dek, nonce, recipientPublicKey, ephemeral.privateKey)),
     ephemeralPublicKey |-> encodeBase64(ephemeral.publicKey),
     nonce |-> encodeBase64(nonce)]

\* (mutation of unwrapDEK: the result of nacl.box.open is returned unchecked)
unwrapDEKUnchecked(wrappedDEK, recipientPrivateKey) ==
    IF \/ decodeBase64Throws(wrappedDEK.ciphertext)
       \/ decodeBase64Throws(wrappedDEK.ephemeralPublicKey)
       \/ decodeBase64Throws(wrappedDEK.nonce)
    THEN [throws |-> TRUE, error |-> "TypeError: invalid encoding", dek |-> <<>>]
    ELSE [throws |-> FALSE, error |-> "none",
          dek |-> naclBoxOpen(decodeBase64(wrappedDEK.ciphertext),
                              decodeBase64(wrappedDEK.nonce),
                              decodeBase64(wrappedDEK.ephemeralPublicKey),
                              recipientPrivateKey).msg]

\* unwrapDEK(wrappedDEK, recipientPrivateKey)
unwrapDEK(wrappedDEK, recipientPrivateKey) ==
    IF \/ decodeBase64Throws(wrappedDEK.ciphertext)
       \/ decodeBase64Throws(wrappedDEK.ephemeralPublicKey)
       \/ decodeBase64Throws(wrappedDEK.nonce)
    THEN [throws |-> TRUE, error |-> "TypeError: invalid encoding", dek |-> <<>>]
    ELSE LET dek == naclBoxOpen(decodeBase64(wrappedDEK.ciphertext),
                                decodeBase64(wrappedDEK.nonce),
                                decodeBase64(wrappedDEK.ephemeralPublicKey),
                                recipientPrivateKey)
         IN IF dek.null
            THEN [throws |-> TRUE,
                  error |-> "DEK unwrapping failed - invalid key or corrupted data",
                  dek |-> <<>>]
            ELSE [throws |-> FALSE, error |-> "none", dek |-> dek.msg]

\* what reaches unwrapDEK in place of the ciphertext the sender made: the
\* same text, text of other bytes, or text that is not base64
CiphertextChanges == {"none", "bytes", "notBase64"}
ChangeCiphertext(text, change) ==
    CASE change = "none" -> text
      [] change = "bytes" -> encodeBase64([decodeBase64(text) EXCEPT !.intact = FALSE])
      [] OTHER -> NotBase64

\* a sender wraps dek for agent `recipient` with the one-time keypair
\* `ephemeral` and `nonce`; the wrapped key arrives with the given changes
\* and is unwrapped with the private key of agent `opener`
UnwrapInputs ==
    [dek : DEKs, recipient : AgentKeyIds, ephemeral : EphemeralKeyIds, nonce : Nonces,
     change : CiphertextChanges, nonceSeen : Nonces,
     ephemeralSeen : AgentKeyIds \cup EphemeralKeyIds, opener : AgentKeyIds]

Wrapped(in) ==
    wrapDEK(in.dek, generateKeypair(in.recipient).publicKey,
            generateKeypair(in.ephemeral), in.nonce)

Seen(in) ==
    [ciphertext |-> ChangeCiphertext(Wrapped(in).ciphertext, in.change),
     ephemeralPublicKey |-> encodeBase64(generateKeypair(in.ephemeralSeen).publicKey),
     nonce |-> encodeBase64(in.nonceSeen)]

NoUnwrapResult == [throws |-> FALSE, error |-> "none", dek |-> <<>>]

\* unwrapDEK is called on the wrapped key as it arrived
UnwrapCall ==
    /\ ~lastUnwrap.called
    /\ lastUnwrap' = [lastUnwrap EXCEPT !.called = TRUE,
            !.result = unwrapDEK(Seen(lastUnwrap.in),
                                 generateKeypair(lastUnwrap.in.opener).privateKey)]
    /\ UNCHANGED <<lastCipher, notCry>>

UnwInit ==
    lastUnwrap \in {[in |-> in, called |-> FALSE, result |-> NoUnwrapResult] :
                        in \in UnwrapInputs}

UnwIdle ==
    lastUnwrap = [in |-> [dek |-> <<"dek", 1>>, recipient |-> 1, ephemeral |-> 3,
                          nonce |-> "nonce1", change |-> "none", nonceSeen |-> "nonce1",
                          ephemeralSeen |-> 3, opener |-> 1],
                  called |-> FALSE, result |-> NoUnwrapResult]

UnwNext == UnwrapCall

(***************************************************************************)
(* Payload cipher (lib/proofi-sdk.js, health-analyzer/src/crypto.ts).      *)
(* AES-256-GCM is modelled symbolically: a ciphertext opens under the key  *)
(* bytes and the iv it was made with.  A WebCrypto key carries the usages  *)
(* it was created with.                                                     *)
(***************************************************************************)
Pins == {"1234", "9999"}
Salts == {"salt"}
KeyBytes == {"keyA", "keyB"}
Ivs == {"iv1", "iv2"}

\* deriveKey(pin, salt)
deriveKey(pin, salt) == [bytes |-> <<"PBKDF2", pin, salt>>, usages |-> {"decrypt"}]

\* AES-GCM keys a caller imports itself, with the usages it asks for
ImportedKeys == [bytes : {<<k>> : k \in KeyBytes}, usages : {{"encrypt", "decrypt"}}]
CryptoKeys == ImportedKeys \cup {deriveKey(pin, salt) : pin \in Pins, salt \in Salts}

\* the data handed to encryptData: strings, and values that are not strings
Plaintexts == {[type |-> "string", value |-> "hello"], [type |-> "string", value |-> ""],
               [type |-> "object", value |-> "{steps: 1}"]}

\* JSON.stringify(data)
JSONstringify(data) == [type |-> "string", value |-> <<"json", data.value>>]

\* encryptData(data, key), iv = crypto.getRandomValues(...)
encryptData(data, key, iv) ==
    IF "encrypt" \notin key.usages
    THEN [throws |-> TRUE, error |-> "InvalidAccessError"]
    ELSE [throws |-> FALSE, error |-> "none",
          payload |-> [ciphertext |-> encodeBase64([key |-> key.bytes, iv |-> iv,
                            text |-> IF data.type = "string" THEN data
                                     ELSE JSONstringify(data)]),
                       iv |-> encodeBase64(iv),
                       algorithm |-> "AES-256-GCM"]]

\* decryptData(encryptedPayload, key)
decryptData(payload, key) ==
    IF payload.algorithm # "AES-256-GCM"
    THEN [throws |-> TRUE, error |-> "Unsupported algorithm"]
    ELSE IF "decrypt" \notin key.usages
    THEN [throws |-> TRUE, error |-> "InvalidAccessError"]
    ELSE IF \/ decodeBase64(payload.ciphertext).key # key.bytes
            \/ decodeBase64(payload.ciphertext).iv # decodeBase64(payload.iv)
    THEN [throws |-> TRUE, error |-> "OperationError"]
    ELSE [throws |-> FALSE, error |-> "none", value |-> decodeBase64(payload.ciphertext).text]

\* decryptAES(ciphertextB64, ivB64, key) with the raw key bytes
decryptAES(ciphertextB64, ivB64, key) ==
    IF \/ decodeBase64(ciphertextB64).key # key
       \/ decodeBase64(ciphertextB64).iv # decodeBase64(ivB64)
    THEN [throws |-> TRUE, error |-> "Unsupported state or unable to authenticate data"]
    ELSE [throws |-> FALSE, error |-> "none", value |-> decodeBase64(ciphertextB64).text]

CipherInputs == [data : Plaintexts, key : CryptoKeys, iv : Ivs, otherKey : CryptoKeys]

NoCipherResult == [throws |-> FALSE, error |-> "none"]

\* encryptData(data, key), then decryptData and decryptAES of its output
\* with otherKey
CipherRound ==
    LET in == lastCipher.in
        encrypted == encryptData(in.data, in.key, in.iv)
    IN /\ ~lastCipher.ran
       /\ lastCipher' =
             [lastCipher EXCEPT !.ran = TRUE,
                !.encrypted = encrypted,
                !.decrypted = IF encrypted.throws THEN encrypted
                              ELSE decryptData(encrypted.payload, in.otherKey),
                !.decryptedAES = IF encrypted.throws THEN encrypted
                                 ELSE decryptAES(encrypted.payload.ciphertext,
                                                 encrypted.payload.iv, in.otherKey.bytes)]
       /\ UNCHANGED <<lastUnwrap, notCry>>

CphInit ==
    lastCipher \in {[in |-> in, ran |-> FALSE, encrypted |-> NoCipherResult,
                     decrypted |-> NoCipherResult, decryptedAES |-> NoCipherResult] :
                        in \in CipherInputs}

CphIdle ==
    lastCipher = [in |-> [data |-> [type |-> "string", value |-> "hello"],
                          key |-> deriveKey("1234", "salt"), iv |-> "iv1",
                          otherKey |-> deriveKey("1234", "salt")],
                  ran |-> FALSE, encrypted |-> NoCipherResult,
                  decrypted |-> NoCipherResult, decryptedAES |-> NoCipherResult]

CphNext == CipherRound

CryInit == UnwIdle /\ CphIdle

(***************************************************************************)
(* POST /analyze (health-analyzer/src/server.ts).  parseToken,             *)
(* validateToken and ProofiAgent come from the agent SDK package the       *)
(* server imports; they are modelled by what the handler passes to them    *)
(* and by what the README states about them.                               *)
(***************************************************************************)
Requests == 1..MaxRequests

S_healthMetrics == S_health \o <<"/","m","e","t","r","i","c","s">>
S_healthInsights == S_health \o <<"/","i","n","s","i","g","h","t","s">>

\* publicKeyBase64 of the keypair the server loaded at start
AgentPublicKey == "agentPublicKey"

ServerScopeLists ==
    { <<[path |-> S_healthMetrics, permissions |-> {"read"}]>>,
      <<[path |-> S_healthMetrics, permissions |-> {"read"}],
        [path |-> S_healthInsights, permissions |-> {"write"}]>>,
      <<[path |-> S_healthStar, permissions |-> {"read"}],
        [path |-> S_healthInsights, permissions |-> {"read"}]>>,
      <<[path |-> S_healthStar, permissions |-> {"read", "write"}]>> }

\* request bodies: not JSON, no token, a token parseToken throws on, or a
\* token parseToken decodes
NoToken == [exp |-> 0, sub |-> "none", scopes |-> <<>>]
Bodies ==
    [kind : {"badJson", "missing", "malformed"}, token : {NoToken}]
    \cup [kind : {"token"},
          token : [exp : {1, MaxSeconds}, sub : Subjects, scopes : ServerScopeLists]]

\* validateToken(parsedToken): called with the token alone; validates
\* expiration (README, Security Considerations)
validateToken(tok, ms) ==
    IF isTokenExpired(tok, ms)
    THEN [valid |-> FALSE, reason |-> "Token expired"]
    ELSE [valid |-> TRUE, reason |-> "none"]

\* agent.hasPermission(path, permission)
hasPermission(tok, path, permission) == hasScope(tok, path, permission)

NoResponse == [status |-> 0, success |-> FALSE, error |-> "none"]
IdleRequest == [pc |-> "idle", body |-> "none", receivedAt |-> 0, token |-> NoToken,
                failure |-> "none", agentCreated |-> FALSE, healthData |-> "none",
                insights |-> "none", writeAttempted |-> FALSE, wrote |-> FALSE, response |-> NoResponse]

ErrorResponse(status, error) == [status |-> status, success |-> FALSE, error |-> error]

\* (mutation of AfterReceive: the return after a failed validation is missing)
AfterReceiveNoReturn(body, ms) ==
    LET received == [IdleRequest EXCEPT !.body = body.kind, !.receivedAt = ms]
    IN CASE body.kind = "badJson" ->
                [received EXCEPT !.pc = "done",
                    !.response = ErrorResponse(500, "error.message")]
         [] body.kind = "missing" ->
                [received EXCEPT !.pc = "done",
                    !.response = ErrorResponse(400, "Missing capability token")]
         [] body.kind = "malformed" ->
                [received EXCEPT !.pc = "done", !.failure = "parse",
                    !.response = ErrorResponse(400, "Invalid token format")]
         [] OTHER ->
                [received EXCEPT !.pc = "read", !.token = body.token,
                    !.failure = IF validateToken(body.token, ms).valid
                                THEN "none" ELSE "validation",
                    !.agentCreated = TRUE]

\* the request after the handler ran from `await c.req.json()` to
\* `await agent.read(...)` on this body at Date.now() = ms
AfterReceive(body, ms) ==
    LET received == [IdleRequest EXCEPT !.body = body.kind, !.receivedAt = ms]
    IN CASE body.kind = "badJson" ->
                [received EXCEPT !.pc = "done",
                    !.response = ErrorResponse(500, "error.message")]
         [] body.kind = "missing" ->
                [received EXCEPT !.pc = "done",
                    !.response = ErrorResponse(400, "Missing capability token")]
         [] body.kind = "malformed" ->
                [received EXCEPT !.pc = "done", !.failure = "parse",
                    !.response = ErrorResponse(400, "Invalid token format")]
         [] OTHER ->
                IF ~validateToken(body.token, ms).valid
                THEN [received EXCEPT !.pc = "done", !.token = body.token,
                         !.failure = "validation",
                         !.response = ErrorResponse(400, "Token validation failed")]
                ELSE [received EXCEPT !.pc = "read", !.token = body.token,
                         !.agentCreated = TRUE]

\* the handler from `await c.req.json()` to `await agent.read(...)`
AnalyzeReceive(q, body) ==
    /\ reqs[q].pc = "idle"
    /\ reqs' = [reqs EXCEPT ![q] = AfterReceive(body, dateNow)]
    /\ UNCHANGED notSrv

\* agent.read('health/metrics') resolved, or it rejected (fetch, DEK unwrap
\* or decryption failed) and the catch block substitutes mock data.  The
\* wrapped DEK opens only with the private key of the token's subject.
AnalyzeRead(q, readWorks) ==
    /\ reqs[q].pc = "read"
    /\ readWorks => reqs[q].token.sub = AgentPublicKey
    /\ reqs' = [reqs EXCEPT ![q].pc = "analyze",
                            ![q].failure = IF readWorks THEN "none" ELSE "read",
                            ![q].healthData = IF readWorks THEN "ddc" ELSE "mock"]
    /\ UNCHANGED notSrv

SuccessResponse == [status |-> 200, success |-> TRUE, error |-> "none"]

\* (mutation of AnalyzeAnalyzed: the write-back is not gated)
AnalyzeAnalyzedUngated(q) ==
    /\ reqs[q].pc = "analyze"
    /\ reqs' = [reqs EXCEPT ![q].pc = "write", ![q].insights = "made",
                            ![q].writeAttempted = TRUE]
    /\ UNCHANGED notSrv

\* analyzeHealthData resolved; the write-back is attempted when the token
\* has the write permission for health/insights, else the response is sent
AnalyzeAnalyzed(q) ==
    /\ reqs[q].pc = "analyze"
    /\ reqs' = [reqs EXCEPT ![q] =
          IF hasPermission(reqs[q].token, S_healthInsights, "write")
          THEN [reqs[q] EXCEPT !.pc = "write", !.insights = "made",
                               !.writeAttempted = TRUE]
          ELSE [reqs[q] EXCEPT !.pc = "done", !.insights = "made",
                               !.response = SuccessResponse]]
    /\ UNCHANGED notSrv

\* analyzeHealthData rejected (the decrypted value is not a HealthMetrics
\* object): the outer catch answers 500
AnalyzeAnalysisThrows(q) ==
    /\ reqs[q].pc = "analyze"
    /\ reqs[q].healthData = "ddc"
    /\ reqs' = [reqs EXCEPT ![q].pc = "done",
                            ![q].response = ErrorResponse(500, "error.message")]
    /\ UNCHANGED notSrv

\* agent.write('health/insights', insights) resolved, or it rejected and
\* the catch block continues; the success response is sent
AnalyzeWrite(q, writeWorks) ==
    /\ reqs[q].pc = "write"
    /\ reqs' = [reqs EXCEPT ![q].pc = "done", ![q].wrote = writeWorks,
                            ![q].response = SuccessResponse]
    /\ UNCHANGED notSrv

SrvInit == reqs = [q \in Requests |-> IdleRequest]

SrvReceive == \E q \in Requests, body \in Bodies : AnalyzeReceive(q, body)
SrvRead == \E q \in Requests, ok \in BOOLEAN : AnalyzeRead(q, ok)
SrvAnalyzed == \E q \in Requests : AnalyzeAnalyzed(q)
SrvAnalysisThrows == \E q \in Requests : AnalyzeAnalysisThrows(q)
SrvWrite == \E q \in Requests, ok \in BOOLEAN : AnalyzeWrite(q, ok)

SrvNext ==
    SrvReceive \/ SrvRead \/ SrvAnalyzed \/ SrvAnalysisThrows \/ SrvWrite \/ AdvanceDateNow

(***************************************************************************)
(* Dashboard server (server.js): module state and the handlers that        *)
(* change it                                                               *)
(***************************************************************************)
DashRequests == {1, 2}
AgentNames == {"crossSource", "trend", "brief"}
\* :name of POST /api/agent/:name mapped to its agentResults key; "other"
\* is a name the switch does not know
RouteNames == AgentNames \cup {"other"}
Goals == {"g1", "g2"}
BodyGoals == Goals \cup {"absent"}

NoResults == [a \in AgentNames |-> 0]
IdleAgentRun == [pc |-> "idle", name |-> "other", data |-> 0, status |-> 0]

\* POST /api/data/sample
LoadSample(goals) ==
    /\ healthData < MaxLoads
    /\ healthData' = healthData + 1
    /\ userGoals' = IF goals = "absent" THEN userGoals ELSE goals
    /\ agentResults' = NoResults
    /\ UNCHANGED <<agentRuns, notDash>>

\* POST /api/data/upload: no xml (400), the parser throws (500), or the
\* parsed data is loaded
UploadData(outcome, goals) ==
    /\ outcome = "loaded" => healthData < MaxLoads
    /\ IF outcome = "loaded"
       THEN /\ healthData' = healthData + 1
            /\ userGoals' = IF goals = "absent" THEN userGoals ELSE goals
            /\ agentResults' = NoResults
       ELSE UNCHANGED <<healthData, userGoals, agentResults>>
    /\ UNCHANGED <<agentRuns, notDash>>

\* POST /api/goals
SetGoals(goals) ==
    /\ goals # "absent"
    /\ userGoals' = goals
    /\ UNCHANGED <<healthData, agentResults, agentRuns, notDash>>

\* POST /api/agent/:name up to `await isAvailable()`
AgentRequest(q, name) ==
    /\ agentRuns[q].pc \in {"idle", "done"}
    /\ agentRuns' = [agentRuns EXCEPT ![q] =
          IF healthData = 0
          THEN [IdleAgentRun EXCEPT !.pc = "done", !.name = name, !.status = 400]
          ELSE [IdleAgentRun EXCEPT !.pc = "available", !.name = name]]
    /\ UNCHANGED <<healthData, userGoals, agentResults, notDash>>

\* isAvailable() resolved: 503, 404 for an unknown name, or the agent is
\* started on the health data loaded now
AgentAvailable(q, available) ==
    /\ agentRuns[q].pc = "available"
    /\ agentRuns' = [agentRuns EXCEPT ![q] =
          IF ~available THEN [@ EXCEPT !.pc = "done", !.status = 503]
          ELSE IF @.name \notin AgentNames THEN [@ EXCEPT !.pc = "done", !.status = 404]
          ELSE [@ EXCEPT !.pc = "running", !.data = healthData]]
    /\ UNCHANGED <<healthData, userGoals, agentResults, notDash>>

\* the agent's run resolved (the result is stored under its key and sent)
\* or rejected (500)
AgentFinished(q, ok) ==
    /\ agentRuns[q].pc = "running"
    /\ agentRuns' = [agentRuns EXCEPT ![q].pc = "done",
                                      ![q].status = IF ok THEN 200 ELSE 500]
    /\ agentResults' = IF ok
                       THEN [agentResults EXCEPT ![agentRuns[q].name] = agentRuns[q].data]
                       ELSE agentResults
    /\ UNCHANGED <<healthData, userGoals, notDash>>

DashInit ==
    /\ healthData = 0
    /\ userGoals = "g1"
    /\ agentResults = NoResults
    /\ agentRuns = [q \in DashRequests |-> IdleAgentRun]

DashSample == \E g \in BodyGoals : LoadSample(g)
DashUpload == \E o \in {"noXml", "parserThrows", "loaded"}, g \in BodyGoals : UploadData(o, g)
DashGoals == \E g \in BodyGoals : SetGoals(g)
DashRequest == \E q \in DashRequests, n \in RouteNames : AgentRequest(q, n)
DashAvailable == \E q \in DashRequests, ok \in BOOLEAN : AgentAvailable(q, ok)
DashFinished == \E q \in DashRequests, ok \in BOOLEAN : AgentFinished(q, ok)

DashNext ==
    DashSample \/ DashUpload \/ DashGoals \/ DashRequest \/ DashAvailable \/ DashFinished

(***************************************************************************)
(* ProofiSDK.executeAgent (lib/proofi-sdk.js).  Calls are taken one at a   *)
(* time, so each `await this.addAuditEntry(...)` appends to the tail it    *)
(* read.  The steps are cut at the agent API call.                         *)
(***************************************************************************)
ExecCallers == 1..MaxExecs
IdleExec == [pc |-> "idle", tokenId |-> 0, wallet |-> FALSE,
             audit |-> [entries |-> 0, chainValid |-> FALSE, signed |-> FALSE]]

\* the chain after `await this.addAuditEntry(action, details)` on it
AppendAudit(chain, action, details) ==
    LET entry == [timestamp |-> clock, action |-> action, details |-> details,
                  prevHash |-> TailHash(chain)]
    IN Append(chain, [timestamp |-> entry.timestamp, action |-> entry.action,
                      details |-> entry.details, prevHash |-> entry.prevHash,
                      hash |-> SHA256(Serialize(entry))])

\* executeAgent up to the fetch of the agent API: WALLET_CONNECTED, the
\* scoped token, TOKEN_CREATED, AGENT_EXECUTED; walletFound is what
\* getWalletState() returned
ExecuteAgentStart(c, scopes, durationMs, walletFound) ==
    /\ \A d \in ExecCallers : execs[d].pc # "fetch"
    /\ execs[c].pc = "idle"
    /\ Len(tokens) < MaxTokens
    /\ LET tokenId == Len(tokens) + 1
           chain1 == AppendAudit(auditChain, "WALLET_CONNECTED", <<"extensionConnected", walletFound>>)
           chain2 == AppendAudit(chain1, "TOKEN_CREATED", <<"tokenId", tokenId>>)
           chain3 == AppendAudit(chain2, "AGENT_EXECUTED", <<"tokenId", tokenId>>)
       IN /\ tokens' = Append(tokens, [tokenId |-> tokenId, scopes |-> scopes,
                                       createdAt |-> clock, expiresAt |-> clock + durationMs,
                                       revoked |-> FALSE])
          /\ auditChain' = chain3
          /\ pushedDetails' = pushedDetails \o
                <<chain3[Len(chain3) - 2].details, chain3[Len(chain3) - 1].details,
                  chain3[Len(chain3)].details>>
          /\ execs' = [execs EXCEPT ![c] =
                          [IdleExec EXCEPT !.pc = "fetch", !.tokenId = tokenId,
                                           !.wallet = walletFound]]
    /\ UNCHANGED <<revokedIds, clock, notExec>>

\* fetch rejected, or res.json() rejected: the rejection leaves executeAgent
ExecuteAgentThrows(c) ==
    /\ execs[c].pc = "fetch"
    /\ execs' = [execs EXCEPT ![c].pc = "threw"]
    /\ UNCHANGED <<auditChain, pushedDetails, tokens, revokedIds, clock, notExec>>

\* the agent API answered: ANALYSIS_COMPLETE, revokeToken, TOKEN_REVOKED,
\* the wallet signature when there is a wallet with signMessage
\* (CHAIN_SIGNED, or the signing throws and is skipped), the result
ExecuteAgentResult(c, signing) ==
    /\ execs[c].pc = "fetch"
    /\ signing \in {"signed", "throws"} => execs[c].wallet
    /\ LET tokenId == execs[c].tokenId
           chain1 == AppendAudit(auditChain, "ANALYSIS_COMPLETE", <<"tokenId", tokenId>>)
           chain2 == AppendAudit(chain1, "TOKEN_REVOKED", <<"tokenId", tokenId>>)
           chain3 == IF signing = "signed"
                     THEN AppendAudit(chain2, "CHAIN_SIGNED", <<"signature", TailHash(chain2)>>)
                     ELSE chain2
       IN /\ tokens' = [tokens EXCEPT ![tokenId].revoked = TRUE]
          /\ revokedIds' = revokedIds \cup {tokenId}
          /\ auditChain' = chain3
          /\ pushedDetails' = pushedDetails \o
                [k \in 1..(Len(chain3) - Len(auditChain)) |-> chain3[Len(auditChain) + k].details]
          /\ execs' = [execs EXCEPT ![c].pc = "done",
                          ![c].audit = [entries |-> Len(chain3),
                                        chainValid |-> VerifyFrom(chain3, 1).valid,
                                        signed |-> signing = "signed"]]
    /\ UNCHANGED <<clock, notExec>>

ExecInit == execs = [c \in ExecCallers |-> IdleExec]

ExecStart ==
    \E c \in ExecCallers, scopes \in GrantedScopes, d \in Durations, w \in BOOLEAN :
        ExecuteAgentStart(c, scopes, d, w)
ExecThrows == \E c \in ExecCallers : ExecuteAgentThrows(c)
ExecResult ==
    \E c \in ExecCallers, signing \in {"unavailable", "signed", "throws"} :
        ExecuteAgentResult(c, signing)

ExecNext == ExecStart \/ ExecThrows \/ ExecResult \/ Tick

(***************************************************************************)
(* ProofiSDK.waitForExtension (lib/proofi-sdk.js)                          *)
(***************************************************************************)
Waiters == {1, 2}
Addresses == {"addr1", "addr2"}
NoExtension == [connected |-> FALSE, address |-> "none"]
NoWallet == [connected |-> FALSE, address |-> "null"]

\* isExtensionAvailable()
isExtensionAvailable == extension.connected

\* getWalletState(): null, or the state of the connected extension
getWalletState ==
    IF ~extension.connected THEN NoWallet
    ELSE [connected |-> TRUE, address |-> extension.address]

\* a call: its promise, its listener and timer, how often resolve or reject
\* was called, the value resolved with, and this.wallet as it was then
IdleWait == [pc |-> "idle", listener |-> FALSE, timer |-> FALSE, settled |-> 0,
             value |-> NoWallet, walletThen |-> NoWallet]

\* waitForExtension(timeoutMs): returns the wallet state at once when the
\* extension is there, else registers the listener and starts the timer
WaitForExtension(w) ==
    /\ waits[w].pc = "idle"
    /\ waits' = [waits EXCEPT ![w] =
          IF isExtensionAvailable
          THEN [IdleWait EXCEPT !.pc = "resolved", !.settled = 1, !.value = getWalletState,
                               !.walletThen = wallet]
          ELSE [IdleWait EXCEPT !.pc = "pending", !.listener = TRUE, !.timer = TRUE]]
    /\ UNCHANGED <<extension, wallet, notExt>>

\* the wallet extension is injected or changes its state
ExtensionChanges(ext) ==
    /\ ext # extension
    /\ extension' = ext
    /\ UNCHANGED <<wallet, waits, notExt>>

\* the proofi-extension-ready event is dispatched: every registered handler
\* runs (removeEventListener, clearTimeout, this.wallet, resolve)
ExtensionReady ==
    /\ waits' = [w \in Waiters |->
          IF waits[w].listener
          THEN [waits[w] EXCEPT !.listener = FALSE, !.timer = FALSE,
                                !.pc = IF waits[w].settled = 0 THEN "resolved" ELSE @,
                                !.value = IF waits[w].settled = 0 THEN getWalletState ELSE @,
                                !.walletThen = IF waits[w].settled = 0 THEN getWalletState ELSE @,
                                !.settled = @ + 1]
          ELSE waits[w]]
    /\ wallet' = IF \E w \in Waiters : waits[w].listener THEN getWalletState ELSE wallet
    /\ UNCHANGED <<extension, notExt>>

\* the timer of call w fires (removeEventListener, reject)
TimeoutFires(w) ==
    /\ waits[w].timer
    /\ waits' = [waits EXCEPT ![w].listener = FALSE, ![w].timer = FALSE,
                              ![w].pc = IF waits[w].settled = 0 THEN "rejected" ELSE @,
                              ![w].settled = @ + 1]
    /\ UNCHANGED <<extension, wallet, notExt>>

\* the caller is done with the promise of call w and may call again
WaitDone(w) ==
    /\ waits[w].pc \in {"resolved", "rejected"}
    /\ waits' = [waits EXCEPT ![w] = IdleWait]
    /\ UNCHANGED <<extension, wallet, notExt>>

ExtInit ==
    /\ extension = NoExtension
    /\ wallet = NoWallet
    /\ waits = [w \in Waiters |-> IdleWait]

ExtWait == \E w \in Waiters : WaitForExtension(w)
ExtChanges ==
    \E ext \in {NoExtension} \cup [connected : {TRUE}, address : Addresses] : ExtensionChanges(ext)
ExtTimeout == \E w \in Waiters : TimeoutFires(w)
ExtDone == \E w \in Waiters : WaitDone(w)

ExtNext == ExtWait \/ ExtChanges \/ ExtensionReady \/ ExtTimeout \/ ExtDone

(***************************************************************************)
(* Specifications                                                          *)
(***************************************************************************)
TokIdle ==
    /\ token = [exp |-> 1, sub |-> "agentPublicKey",
                scopes |-> <<[path |-> S_healthStar, permissions |-> {"read"}]>>]
    /\ dateNow = 0
    /\ lastCheck = NoCheck

\* the subsystems the later handlers add, at their start
RestInit == DashInit /\ ExecInit /\ ExtInit

Init ==
    SdkInit /\ KeyInit /\ TokIdle /\ AudInit /\ SrvInit /\ StoInit /\ LogInit /\ CryInit /\ RestInit

\* the ProofiSDK audit chain
Next == SdkNext
Spec == Init /\ [][Next]_vars

\* the keypair store
SpecKeys == Init /\ [][KeyNext]_vars

\* overlapping runAnalysis calls on the AuditLog singleton
SpecAudit == Init /\ [][AudNext]_vars

\* concurrent POST /analyze requests
SpecServer == Init /\ [][SrvNext]_vars

\* the token checks, for every token and every time
InitToken ==
    SdkInit /\ KeyInit /\ TokInit /\ AudInit /\ SrvInit /\ StoInit /\ LogInit /\ CryInit /\ RestInit
SpecToken == InitToken /\ [][TokNext]_vars

\* the ProofiSDK token map
SpecTokens == Init /\ [][StoNext]_vars

\* the operations of the AuditLog class in any order
SpecAuditLog == Init /\ [][LogNext]_vars

\* unwrapDEK on every wrapped key, changed or not, with every agent key
InitUnwrap ==
    SdkInit /\ KeyInit /\ TokIdle /\ AudInit /\ SrvInit /\ StoInit /\ LogInit /\ UnwInit /\ CphIdle
    /\ RestInit
SpecUnwrap == InitUnwrap /\ [][UnwNext]_vars

\* encryptData followed by decryptData and decryptAES, for every data and keys
InitCipher ==
    SdkInit /\ KeyInit /\ TokIdle /\ AudInit /\ SrvInit /\ StoInit /\ LogInit /\ UnwIdle /\ CphInit
    /\ RestInit
SpecCipher == InitCipher /\ [][CphNext]_vars

\* the dashboard server's handlers, interleaved at their awaits
SpecDash == Init /\ [][DashNext]_vars

\* executeAgent calls on one ProofiSDK
SpecExec == Init /\ [][ExecNext]_vars

\* waitForExtension calls, the extension, the event and the timers
SpecExt == Init /\ [][ExtNext]_vars

(***************************************************************************)
(* Claims about the ProofiSDK audit chain                                  *)
(***************************************************************************)
\* entries whose details differ from the details they were pushed with
AlteredEntries == {k \in 1..Len(auditChain) : auditChain[k].details # pushedDetails[k]}

Min(S) == CHOOSE m \in S : \A n \in S : m <= n

\* C1: a chain built by sequential addAuditEntry calls and not edited
\* afterwards starts at the genesis prevHash, links every entry to the hash
\* of its predecessor, stores for every entry the SHA-256 digest of the
\* entry serialized without its hash field, and passes verifyChain().
C1_SequentialChainValid ==
    (~overlapped /\ AlteredEntries = {}) =>
        /\ Len(auditChain) > 0 => auditChain[1].prevHash = Genesis
        /\ \A i \in 2..Len(auditChain) : auditChain[i].prevHash = auditChain[i - 1].hash
        /\ \A i \in 1..Len(auditChain) :
              auditChain[i].hash = SHA256(<<auditChain[i].timestamp, auditChain[i].action,
                                            auditChain[i].details, auditChain[i].prevHash>>)
        /\ verifyChain.valid

C1_Witness ==
    /\ ~overlapped /\ AlteredEntries = {}
    /\ Len(auditChain) >= 3
    /\ verifyChain.valid

\* C2: when the details of entry k of a sequentially built chain are altered
\* afterwards (nothing else changed), verifyChain() returns valid = false
\* with a broken index at or after k (indices counted from 0 as in the code).
C2_TamperEvident ==
    (~overlapped /\ AlteredEntries # {}) =>
        /\ ~verifyChain.valid
        /\ verifyChain.brokenAt >= Min(AlteredEntries) - 1

C2_Witness ==
    /\ ~overlapped
    /\ \E k \in AlteredEntries : k < Len(auditChain)
    /\ ~verifyChain.valid

\* positions (counted from 1) of the stored chain at which the prevHash
\* check or the hash check fails
FailingIndices ==
    {i \in 1..Len(auditChain) :
        \/ auditChain[i].prevHash # (IF i = 1 THEN Genesis ELSE auditChain[i - 1].hash)
        \/ auditChain[i].hash # SHA256(<<auditChain[i].timestamp, auditChain[i].action,
                                         auditChain[i].details, auditChain[i].prevHash>>)}

\* C19: verifyChain() reports success when no index of the chain fails the
\* prevHash check or the hash check, and otherwise reports valid = false
\* with the smallest failing index (counted from 0 as in the code).
C19_FirstFailureReported ==
    IF FailingIndices = {}
    THEN verifyChain.valid /\ verifyChain.entries = Len(auditChain)
    ELSE ~verifyChain.valid /\ verifyChain.brokenAt = Min(FailingIndices) - 1

C19_Witness ==
    /\ Cardinality(FailingIndices) >= 2
    /\ Min(FailingIndices) > 1
    /\ ~verifyChain.valid
    /\ verifyChain.brokenAt = Min(FailingIndices) - 1

(***************************************************************************)
(* Claims about the keypair store                                          *)
(***************************************************************************)
\* C8: when the keypair file exists but cannot be decoded, getOrCreateKeypair
\* fails with an error and leaves the stored file unchanged.
C8_CorruptFileFailsLoudly ==
    [][(GetOrCreateKeypair /\ keyFile.exists /\ keyFile.kind \in CorruptKinds)
          => (keyFile' = keyFile /\ keyPc' = "idle" /\ keyResult' = [kind |-> "error"])]_vars

\* C9: between two deleteKeypair calls at most one keypair is generated and
\* every getOrCreateKeypair call returns that same keypair.
C9_KeypairCreatedOnce ==
    /\ Cardinality(generatedKeys) <= 1
    /\ Cardinality(returnedKeys) <= 1

(***************************************************************************)
(* Claims about the token checks                                           *)
(***************************************************************************)
\* C4: the expiry check reports a token as expired exactly when
\* expiresAt <= now, the boundary now = expiresAt included.
C4_ExpiredFromExpiryOn ==
    lastCheck.op = "isTokenExpired" =>
        (lastCheck.result <=> token.exp <= lastCheck.at \div 1000)

\* C6: a pattern P/* matches exactly the paths below P (paths that start
\* with P followed by "/"); any other pattern matches only itself.
C6_WildcardIsSlashBounded ==
    lastCheck.op = "matchScope" =>
        (lastCheck.result <=>
            \/ lastCheck.a = lastCheck.b
            \/ /\ endsWith(lastCheck.a, <<"/","*">>)
               /\ startsWith(lastCheck.b, sliceEnd(lastCheck.a, 1)))

\* C7: hasScope grants (path, permission) exactly when some scope has the
\* permission and a path that equals the required path or is a prefix
\* ending in the wildcard marker that the required path starts with.
C7_HasScopeExactOrWildcard ==
    lastCheck.op = "hasScope" =>
        (lastCheck.result <=>
            \E i \in 1..Len(token.scopes) :
                /\ lastCheck.permission \in token.scopes[i].permissions
                /\ \/ token.scopes[i].path = lastCheck.b
                   \/ /\ endsWith(token.scopes[i].path, <<"*">>)
                      /\ startsWith(lastCheck.b, sliceEnd(token.scopes[i].path, 1)))

C5_WrongSubjectRejected ==
    \A q \in Requests :
        (reqs[q].token # NoToken /\ reqs[q].token.sub # AgentPublicKey) =>
            (~reqs[q].agentCreated /\ reqs[q].healthData = "none")

\* C10: every token parse, token validation, DEK unwrap or decryption
\* failure of a request has exactly one token_rejected or error entry in
\* the audit log.
C10_FailureAudited ==
    Cardinality({i \in 1..Len(entries) : entries[i].action \in {"token_rejected", "error"}})
        = Cardinality({q \in Requests : reqs[q].failure # "none"})

\* C11: a request whose token is missing, fails parseToken or fails
\* validateToken has ended with an error response, and no ProofiAgent was
\* created, nothing was read from the object store, nothing was analysed
\* and nothing was written back for it.
C11_RejectedBeforeDataAccess ==
    \A q \in Requests :
        LET r == reqs[q]
            rejected == \/ r.body \in {"missing", "malformed"}
                        \/ /\ r.body = "token"
                           /\ ~validateToken(r.token, r.receivedAt).valid
        IN rejected =>
              /\ r.pc = "done"
              /\ r.response.status = 400
              /\ ~r.response.success
              /\ ~r.agentCreated
              /\ r.healthData = "none"
              /\ r.insights = "none"
              /\ ~r.writeAttempted
              /\ ~r.wrote

C11_Witness ==
    /\ \E q \in Requests :
          /\ reqs[q].body = "token"
          /\ reqs[q].token.sub = AgentPublicKey
          /\ ~validateToken(reqs[q].token, reqs[q].receivedAt).valid
          /\ reqs[q].response = ErrorResponse(400, "Token validation failed")

\* C12: when a request has run end to end with success (token accepted,
\* data read from the object store, analysis done, success response), the
\* audit log holds a token_validated, a dek_unwrapped and a data_decrypted
\* entry for it.
C12_SuccessfulRunAudited ==
    \A a \in {"token_validated", "dek_unwrapped", "data_decrypted"} :
        Cardinality({i \in 1..Len(entries) : entries[i].action = a})
            >= Cardinality({q \in Requests :
                    /\ reqs[q].pc = "done"
                    /\ reqs[q].response = SuccessResponse
                    /\ reqs[q].healthData = "ddc"})

C20_KeypairFileOwnerOnly ==
    (keyFile.exists /\ keyFile.kind = "keypair") => keyFile.mode = "0600"

\* C18: a data_decrypted entry is in the log only for a decryption that
\* has succeeded, and it carries the SHA-256 hash of the plaintext that
\* decryption produced.
C18_DecryptedEntryCarriesPlaintextHash ==
    \A i \in 1..Len(entries) :
        entries[i].action = "data_decrypted" =>
            /\ runs[entryOwner[i]].pc \in {"analyze", "done"}
            /\ entries[i].details.hash = runs[entryOwner[i]].dataHash

(***************************************************************************)
(* Claims about the ProofiSDK access tokens                                *)
(***************************************************************************)
\* C13: once revokeToken(id) has revoked an existing token, validateToken(id,
\* scope) returns valid = false for every scope, now and at every later
\* time, whatever ProofiSDK operations ran in between.
C13_RevocationPermanent ==
    /\ \A id \in revokedIds : \A scope \in RequiredScopes :
          ~ValidateStoredToken(tokens, id, scope, clock).valid
    /\ lastValidation.afterRevoke => ~lastValidation.result.valid

C13_Witness ==
    /\ lastValidation.afterRevoke
    /\ lastValidation.result.reason = "Token revoked"
    /\ lastValidation.tokenId \in DOMAIN tokens
    /\ tokens[lastValidation.tokenId].expiresAt >= lastValidation.at
    /\ tokens[lastValidation.tokenId].createdAt < lastValidation.at
    /\ Len(tokens) > 1

(***************************************************************************)
(* Claims about the AuditLog class                                         *)
(***************************************************************************)
\* C17: after any sequence of log, logWithTiming, getEntries, getSummary and
\* clear, every entry that was appended is still in the log at the index it
\* was appended at, with the fields it was appended with.
C17_AppendOnly ==
    \A k \in 1..Len(everAppended) :
        /\ everAppended[k].index <= Len(entries)
        /\ entries[everAppended[k].index] = everAppended[k].entry

C15_CipherRoundTrip ==
    lastCipher.ran =>
        /\ lastCipher.in.otherKey = lastCipher.in.key =>
              /\ ~lastCipher.encrypted.throws
              /\ ~lastCipher.decrypted.throws
              /\ lastCipher.decrypted.value = lastCipher.in.data
        /\ lastCipher.in.otherKey.bytes # lastCipher.in.key.bytes =>
              /\ lastCipher.decrypted.throws
              /\ lastCipher.decryptedAES.throws

(***************************************************************************)
(* Further claims about POST /analyze                                      *)
(***************************************************************************)
\* C21: when agent.read('health/metrics') fails, the audit log gets an error
\* entry and the request does not end with the success response (insights
\* computed from substitute data).
C21_ReadFailureSurfaced ==
    \A q \in Requests :
        reqs[q].healthData = "mock" =>
            /\ \E i \in 1..Len(entries) : entries[i].action = "error"
            /\ reqs[q].response # SuccessResponse

(***************************************************************************)
(* Further claims about runAnalysis and the ProofiSDK audit chain          *)
(***************************************************************************)
\* C22: an entry stating an action is in the log only once that action has
\* completed: data_fetched only after fetchFromDDC resolved, data_decrypted
\* only after decryptData resolved; after a failed action no entry states it.
C22_EntryOnlyAfterAction ==
    \A i \in 1..Len(entries) :
        /\ entries[i].action = "data_fetched" =>
              runs[entryOwner[i]].pc \notin {"fetch", "failed"}
        /\ entries[i].action = "data_decrypted" =>
              runs[entryOwner[i]].pc \notin {"fetch", "failed", "decrypt"}

\* C23: whenever addAuditEntry calls overlapped and no entry was edited,
\* every entry's prevHash is the hash of the entry stored before it and
\* verifyChain() is valid.
C23_OverlappingAddsKeepChain ==
    (overlapped /\ AlteredEntries = {}) =>
        /\ \A i \in 2..Len(auditChain) : auditChain[i].prevHash = auditChain[i - 1].hash
        /\ verifyChain.valid

\* C24: the chainValid field of the exported document is true only if
\* verifyChain() on the exported entries is valid, and finalHash is the hash
\* of the last exported entry (null for an empty chain).
C24_ExportAgreesWithChain ==
    /\ exportAudit.verification.chainValid => VerifyFrom(exportAudit.entries, 1).valid
    /\ exportAudit.verification.finalHash =
          (IF exportAudit.entries = <<>> THEN <<>>
           ELSE exportAudit.entries[Len(exportAudit.entries)].hash)

\* C27: the model name in an inference_completed entry names the engine
\* that produced the insights whose hash the entry carries: the API model
\* only for the OpenAI analysis, the rule-based model only for the rules.
C27_ModelNameIsEngineUsed ==
    \A i \in 1..Len(entries) :
        entries[i].action = "inference_completed" =>
            /\ entries[i].details.hash = hashData(<<"insights", "openai">>)
                  => entries[i].details.model = "gpt-4o-mini (API)"
            /\ entries[i].details.hash = hashData(<<"insights", "rules">>)
                  => entries[i].details.model = "rule-based (local)"

C28_ResultsAreOfLoadedData ==
    \A a \in AgentNames : agentResults[a] # 0 => agentResults[a] = healthData

\* C25: no token created by an executeAgent call that has finished, by
\* returning or by throwing, validates as valid.
C25_FinishedCallTokenRevoked ==
    \A c \in ExecCallers :
        execs[c].pc \in {"done", "threw"} =>
            \A scope \in RequiredScopes :
                ~ValidateStoredToken(tokens, execs[c].tokenId, scope, clock).valid

\* C30: the promise of waitForExtension settles once; it is resolved by the
\* event and rejected by the timeout; once it is settled neither its
\* listener nor its timer is active; and whenever it is resolved, this.wallet
\* is the wallet state it resolved with.
C30_WaitSettlesOnce ==
    \A w \in Waiters :
        /\ waits[w].settled <= 1
        /\ waits[w].pc = "pending" <=> (waits[w].listener /\ waits[w].timer)
        /\ waits[w].pc \in {"resolved", "rejected"} =>
              (waits[w].settled = 1 /\ ~waits[w].listener /\ ~waits[w].timer)
        /\ waits[w].pc = "resolved" => waits[w].walletThen = waits[w].value

\* C29: validateToken reports the first check that fails, in the order
\* unknown id, revoked, expired, scope not granted; it answers valid, with
\* the token, exactly when every check passes; and it leaves the token
\* store as it was.
C29_FirstFailingCheckReported ==
    [][\A id \in TokenIds, scope \in RequiredScopes :
          ValidateTokenCall(id, scope) =>
            LET r == lastValidation'.result
                found == id \in DOMAIN tokens
                revoked == found /\ tokens[id].revoked
                expired == found /\ tokens[id].expiresAt < clock
                denied == /\ found
                          /\ scope # <<>>
                          /\ \A k \in 1..Len(tokens[id].scopes) :
                                ~matchScope(tokens[id].scopes[k], scope)
            IN /\ tokens' = tokens
               /\ ~found => r.reason = "Token not found"
               /\ revoked => r.reason = "Token revoked"
               /\ (found /\ ~revoked /\ expired) => r.reason = "Token expired"
               /\ (found /\ ~revoked /\ ~expired /\ denied) => r.reason = "Scope not granted"
               /\ r.valid <=> (found /\ ~revoked /\ ~expired /\ ~denied)
               /\ r.token = IF r.valid THEN id ELSE 0]_vars

\* a token both revoked and expired was validated and reported revoked
C29_Witness ==
    /\ lastValidation.tokenId \in DOMAIN tokens
    /\ lastValidation.afterRevoke
    /\ tokens[lastValidation.tokenId].expiresAt < lastValidation.at
    /\ lastValidation.result.reason = "Token revoked"

====
